---- MODULE Spec2Model ----
(***************************************************************************)
(* Model of the two scripts of the repository, src/test-generatior.ts and  *)
(* src/tester.ts.  Each script, when executed, calls runTest(url,testName) *)
(* at module top level; tester.ts additionally calls the standalone async  *)
(* function test() right after.  Async functions run on the single         *)
(* JavaScript thread: a function runs synchronously up to its next await,  *)
(* then is resumed when the awaited external call resolves or rejects.     *)
(* In the model a position (pc, tpc) names the external call the function  *)
(* is awaiting, and every action is one resumption: everything the code    *)
(* does from the completion of the awaited call up to the next await.      *)
(* The functions of the design notes (src/playwrite_test_auto-1.md and the *)
(* notes pasted into tester.ts) are modelled the same way, each under a    *)
(* specification of its own: the validating generator (SpecGen),           *)
(* sanitizeHTML and filterHTML (SpecHtml), extractSanitizedHTML            *)
(* (SpecExtract).                                                          *)
(***************************************************************************)
EXTENDS Integers, Sequences, FiniteSets, TLC

VARIABLES
  script,        \* which source file is being executed
  url, testName, \* the arguments of runTest
  pc,            \* runTest: the call being awaited, or "done"
  browser, page, \* runTest: the locals `browser` and `page` (Null or a handle)
  dom,           \* the children of document.body of runTest's page after page.evaluate
  bodyHtml,      \* runTest: the local `bodyHtml` (serialized tokens)
  msg,           \* runTest: the response of the first messages.create
  parsedData,    \* the first argument handed to generatePlaywrightCode
  response,      \* generatePlaywrightCode: the response of the second messages.create
  sent,          \* the requests handed to anthropic.messages.create, in order
  outcome,       \* state of the promise returned by runTest
  tpc,           \* test(): the call being awaited, "done", or "absent"
  tbrowser, tpage, \* test(): the locals `browser` and `page`
  toutcome,      \* state of the promise returned by test()
  openBrowsers,  \* browser processes currently running
  openPages,     \* pages currently open
  files,         \* the file system: path -> contents
  log,           \* console output, in order
  calls,         \* history: the steps runTest has started, in order
  okSteps,       \* history: the steps of runTest that completed successfully
  failedAt,      \* history: the step whose failure entered the catch block
  styled,        \* history: whether an element of the page had a style attribute
                 \* when the callback of page.evaluate started
  before,        \* history: the contents of src/test.ts when this invocation started
  prevOutput,    \* history: what the previous invocation wrote to src/test.ts, or Null
  gen,           \* the validating generator: function, awaited call, response, promise
  txt,           \* sanitizeHTML/filterHTML: the strings, the criteria array and its state
  ext,           \* extractSanitizedHTML: arguments, locals, awaited call, promise
  wf             \* runTest(...).then(() => executeTest()).catch(...): the chain

vars == <<script, url, testName, pc, browser, page, dom, bodyHtml, styled, msg,
          parsedData, response, sent, outcome, tpc, tbrowser, tpage, toutcome,
          openBrowsers, openPages, files, log, calls, okSteps, failedAt,
          before, prevOutput, gen, txt, ext, wf>>

inputVars == <<script, url, testName>>
testVars  == <<tpc, tbrowser, tpage, toutcome>>
\* What no step of runTest or test() touches.
restVars  == <<before, prevOutput, gen, txt, ext, wf>>

----------------------------------------------------------------------------
(* Bounds of the model *)

\* The largest number of elements below document.body, at any depth.
MaxNodes == 2

\* The largest number of pieces an HTML string handed to sanitizeHTML is
\* put together from.
MaxChunks == 3

\* How often filterHTML is called with one criteria array.
MaxFilterCalls == 2

\* The largest number of interaction steps handed to extractSanitizedHTML.
MaxSteps == 2

----------------------------------------------------------------------------
(* Values *)

Null == "null"
Undefined == "undefined"
Absent == "<no such file>"

Generator == "src/test-generatior.ts"
Tester == "src/tester.ts"
Scripts == {Generator, Tester}

GeneratorUrl == "https://www.youtube.com/"
GeneratorTestName == "search for \"AI in healthcare\""
TesterUrl == "https://www.facebook.com"
TesterTestName == "login to facebook"

Urls == {GeneratorUrl, TesterUrl}
TestNames == {GeneratorTestName, TesterTestName}

\* Handles: B1/P1 are obtained by runTest, B2/P2 by test().
RunTestBrowser == "B1"
RunTestPage == "P1"
TestBrowser == "B2"
TestPage == "P2"
ExtractBrowser == "B3"
ExtractPage == "P3"
PagesOf(b) == IF b = RunTestBrowser THEN {RunTestPage}
              ELSE IF b = TestBrowser THEN {TestPage}
              ELSE IF b = ExtractBrowser THEN {ExtractPage} ELSE {}

OutputFile == "src/test.ts"
\* The file a generator that named its output after the scenario would write.
ScenarioFile(name) == IF name = GeneratorTestName THEN "src/search.ts" ELSE "src/login.ts"
GeneratedTestFile == "src/generatedTest.ts"
\* The file extractSanitizedHTML writes for debugging.
SanitizedFile == "sanitized.html"
\* The file logTestFeedback appends to.
FeedbackFile == "src/test-feedback.json"
Paths == {OutputFile, GeneratedTestFile, SanitizedFile, FeedbackFile}
           \cup {ScenarioFile(n) : n \in TestNames}
StaleCode == "export const test = async () => { /* earlier run */ };"

----------------------------------------------------------------------------
(* The page DOM and the callback of page.evaluate *)

Tags == {"div", "link", "script", "style", "svg", "meta"}
ContainerTags == {"div", "svg"}
VoidTags == {"link", "meta"}

\* The subtrees of n elements rooted at one element, and the child lists
\* of n elements in all; only container elements have element children.
RECURSIVE ElementsOfSize(_), BodiesOfSize(_)
ElementsOfSize(n) ==
  IF n = 1 THEN [tag : Tags, style : BOOLEAN, kids : {<<>>}]
  ELSE [tag : ContainerTags, style : BOOLEAN, kids : BodiesOfSize(n - 1)]
BodiesOfSize(n) ==
  IF n = 0 THEN {<<>>}
  ELSE UNION {{<<e>> \o r : e \in ElementsOfSize(k), r \in BodiesOfSize(n - k)} :
              k \in 1..n}
\* The possible children of document.body when page.evaluate runs.
Doms == UNION {BodiesOfSize(n) : n \in 0..MaxNodes}

GeneratorSelector == {"link", "script", "style", "svg", "meta"}
TesterSelector == {"link", "script", "style"}
Selector(s) == IF s = Generator THEN GeneratorSelector ELSE TesterSelector

\* Some element of the tree has a style attribute.
RECURSIVE HasStyle(_)
HasStyle(nodes) ==
  /\ nodes # <<>>
  /\ \/ Head(nodes).style
     \/ HasStyle(Head(nodes).kids)
     \/ HasStyle(Tail(nodes))

\* A callback that leaves the style attributes where they are.
KeepAttributeStyle(nodes) == nodes

\* document.querySelectorAll('*').forEach(e => e.removeAttribute('style'))
RECURSIVE RemoveAttributeStyle(_)
RemoveAttributeStyle(nodes) ==
  IF nodes = <<>> THEN <<>>
  ELSE <<[tag |-> Head(nodes).tag, style |-> FALSE,
          kids |-> RemoveAttributeStyle(Head(nodes).kids)]>>
       \o RemoveAttributeStyle(Tail(nodes))

\* document.body.querySelectorAll(sel).forEach(el => el.remove()):
\* every descendant whose tag is selected is detached with its subtree.
RECURSIVE RemoveMatching(_, _)
RemoveMatching(nodes, sel) ==
  IF nodes = <<>> THEN <<>>
  ELSE IF Head(nodes).tag \in sel THEN RemoveMatching(Tail(nodes), sel)
  ELSE <<[tag |-> Head(nodes).tag, style |-> Head(nodes).style,
          kids |-> RemoveMatching(Head(nodes).kids, sel)]>>
       \o RemoveMatching(Tail(nodes), sel)

\* document.body.innerHTML: the children serialized in document order as a
\* sequence of tag tokens; void elements have no end tag.
RECURSIVE InnerHTML(_)
InnerHTML(nodes) ==
  IF nodes = <<>> THEN <<>>
  ELSE <<[kind |-> "open", tag |-> Head(nodes).tag, style |-> Head(nodes).style]>>
       \o InnerHTML(Head(nodes).kids)
       \o (IF Head(nodes).tag \in VoidTags THEN <<>>
           ELSE <<[kind |-> "close", tag |-> Head(nodes).tag, style |-> FALSE]>>)
       \o InnerHTML(Tail(nodes))

\* The DOM left by the callback handed to page.evaluate.
EvaluateDom(d, sel) == RemoveMatching(RemoveAttributeStyle(d), sel)

----------------------------------------------------------------------------
(* The LLM responses and their decoding *)

TagsJson == "{\"tags\":[]}"
ProseReply == "Here are the tags you asked for: input#search"
Llm1Texts == {TagsJson, ProseReply}

ArrowCode == "export const test = async () => { await page.click('#go'); };"
FunctionCode == "export async function test() { await page.click('#go'); }"
Llm2Texts == {ArrowCode, FunctionCode}

\* A response is the `content` array of the message; a block without a text
\* field (a tool_use block, say) has text Undefined.
Block(t) == [type |-> IF t = Undefined THEN "tool_use" ELSE "text", text |-> t]
Responses(texts) ==
  {[content |-> <<>>]} \cup {[content |-> <<Block(t)>>] : t \in texts \cup {Undefined}}
NoResponse == [content |-> <<>>]

\* JSON.parse: defined on JSON texts only; it throws on anything else,
\* JSON.parse(undefined) included.
IsJson(t) == t = TagsJson
JsonParse(t) == [type |-> "object", value |-> "tags: []"]
RawText(t) == [type |-> IF t = Undefined THEN "undefined" ELSE "string", value |-> t]
NoData == [type |-> "none", value |-> Null]

\* JSON.stringify as used in the second prompt.
JsonStringify(v) ==
  CASE v.type = "object" -> TagsJson
    [] v.type = "string" ->
         (IF v.value = TagsJson THEN "\"{\\\"tags\\\":[]}\""
          ELSE "\"Here are the tags you asked for: input#search\"")
    [] OTHER -> Undefined

----------------------------------------------------------------------------
(* Control flow of runTest *)

\* Steps of runTest that are awaited external calls.
AwaitedSteps == {"launch", "newPage", "goto", "evaluate", "llm1", "llm2",
                 "closePage", "closeBrowser"}
\* The pipeline, in the order of the code; "parse" is the extraction (and,
\* in tester.ts, JSON.parse) of the first response, "extract" the extraction
\* of the second response, "write" is fs.writeFileSync.
PipelineOrder == <<"launch", "newPage", "goto", "evaluate", "llm1", "parse",
                   "llm2", "extract", "write">>
PipelineSteps == {PipelineOrder[i] : i \in 1..Len(PipelineOrder)}
CleanupSteps == {"closePage", "closeBrowser"}

\* A finally block that closes the browser first and leaves the page to it.
FinallyBrowserFirst(pg, br) == IF br # Null THEN "closeBrowser" ELSE "done"

\* A finally block that closes the page without looking at the handle.
FinallyUnguarded(pg, br) == "closePage"

\* The finally block: which close is awaited first.
Finally(pg, br) ==
  IF pg # Null THEN "closePage"
  ELSE IF br # Null THEN "closeBrowser"
  ELSE "done"

\* After page.close() resolved in the finally block.
AfterClosePage(br) == IF br # Null THEN "closeBrowser" ELSE "done"

\* A runTest that forgets to navigate before reading the page.
NextInPipelineNoGoto(step) ==
  CASE step = "launch" -> "newPage"
    [] step = "newPage" -> "evaluate"
    [] step = "goto" -> "evaluate"
    [] step = "evaluate" -> "llm1"
    [] step = "llm1" -> "llm2"
    [] OTHER -> "done"

\* The awaited calls of the try block, in statement order.
NextInPipeline(step) ==
  CASE step = "launch" -> "newPage"
    [] step = "newPage" -> "goto"
    [] step = "goto" -> "evaluate"
    [] step = "evaluate" -> "llm1"
    [] step = "llm1" -> "llm2"
    [] OTHER -> "done"

\* A handler that swallows the error of a step and carries on with the pipeline.
AfterFailureResume(step, pg, br) ==
  IF step \in {"launch", "newPage", "goto", "evaluate", "llm1"}
  THEN NextInPipeline(step) ELSE Finally(pg, br)

\* A handler that issues the failed call again.
AfterFailureRetry(step, pg, br) ==
  IF step \in AwaitedSteps THEN step ELSE Finally(pg, br)

\* A handler that returns from runTest without a finally block.
AfterFailureReturn(step, pg, br) == "done"

\* Where runTest goes when `step` throws inside the try block: the catch
\* block only logs, then the finally block runs.
AfterFailure(step, pg, br) == Finally(pg, br)

\* Resume runTest: it runs the synchronous steps `sync`, prints `logs`, and
\* either awaits the call `next` or returns.
Continue(sync, logs, next) ==
  /\ calls' = calls \o sync \o (IF next = "done" THEN <<>> ELSE <<next>>)
  /\ log' = log \o logs
  /\ pc' = next
  /\ outcome' = IF next = "done" THEN "fulfilled" ELSE outcome

\* `step` threw inside the try block.
Throws(step, sync, logs) ==
  /\ failedAt' = step
  /\ Continue(sync, logs \o <<"Test failed:">>, AfterFailure(step, page, browser))

\* A generator that names its output file after the scenario.
SaveCodePerScenario(fs, testSenario, playwrightCode) ==
  [fs EXCEPT ![ScenarioFile(testSenario)] = playwrightCode]

\* A generator that appends to the output file instead of replacing it.
AppendedCode == "<the earlier contents followed by the new code>"
SaveCodeAppend(fs, testSenario, playwrightCode) ==
  [fs EXCEPT ![OutputFile] = IF @ = Absent THEN playwrightCode ELSE AppendedCode]

\* fs.writeFileSync('src/test.ts', playwrightCode, 'utf8')
SaveCode(fs, testSenario, playwrightCode) ==
  [fs EXCEPT ![OutputFile] = playwrightCode]

----------------------------------------------------------------------------
(* sanitizeHTML and filterHTML of playwrite_test_auto-1.md                 *)
(*                                                                         *)
(* An HTML string is a sequence of atoms.  An atom stands for a fixed run  *)
(* of characters; the atoms are chosen so that a string has one spelling   *)
(* only ("meta" is always "me","ta") and so that every literal of the      *)
(* regular expressions below is a sequence of whole atoms.  The regular    *)
(* expressions are matched atom by atom, as they are character by          *)
(* character in the code.  All atoms are lower case (the expressions have  *)
(* flag i).                                                                 *)

WordAtoms == {"script", "style", "svg", "link", "me", "ta", "div", "input", "button",
              "form", "p", "rel", "stylesheet", "id", "modal", "c", "t", "x"}
IsWord(a) == a \in WordAtoms

\* The pieces HTML inputs are put together from: elements and tags the
\* functions look for, the two halves of a split <meta> tag, and tags they
\* are to leave alone.
Chunks ==
  { <<"<", "script", ">", "x", "<", "/", "script", ">">>,
    <<"<", "style", ">", "x", "<", "/", "style", ">">>,
    <<"<", "svg", ">", "<", "/", "svg", ">">>,
    <<"<", "link", " ", "rel", "=", "\"", "stylesheet", "\"", ">">>,
    <<"<", "me", "ta", ">">>,
    <<"<", "me">>,
    <<"ta", ">">>,
    <<"<", "div", " ", "style", "=", "\"", "c", "\"", ">">>,
    <<"<", "div", " ", "id", "=", "\"", "modal", "\"", ">">>,
    <<"<", "input", " ", "data-testid", "=", "\"", "t", "\"", ">">>,
    <<"<", "button", ">">>,
    <<"<", "p", ">">> }

RECURSIVE Flatten(_)
Flatten(chunks) ==
  IF chunks = <<>> THEN <<>> ELSE Head(chunks) \o Flatten(Tail(chunks))

\* The least and the greatest of a set of positions, 0 for the empty set.
MinOrZero(S) == IF S = {} THEN 0 ELSE CHOOSE i \in S : \A j \in S : i <= j
MaxOrZero(S) == IF S = {} THEN 0 ELSE CHOOSE i \in S : \A j \in S : j <= i

\* The index of the first occurrence of `lit` in s at or after `from`, or 0.
IndexOf(s, lit, from) ==
  MinOrZero({i \in from..(Len(s) - Len(lit) + 1) :
               SubSeq(s, i, i + Len(lit) - 1) = lit})

\* s.replace(/<tag[^>]*>[\s\S]*?<\/tag>/gi, ''), scanning from `pos`.
RECURSIVE RemoveBlocks(_, _, _)
RemoveBlocks(s, tag, pos) ==
  LET i == IndexOf(s, <<"<", tag>>, pos)
      j == IF i = 0 THEN 0 ELSE IndexOf(s, <<">">>, i + 2)
      k == IF j = 0 THEN 0 ELSE IndexOf(s, <<"<", "/", tag, ">">>, j + 1)
  IN IF k = 0 THEN SubSeq(s, pos, Len(s))
     ELSE SubSeq(s, pos, i - 1) \o RemoveBlocks(s, tag, k + 4)

\* s.replace(/<link[^>]*rel=["']stylesheet["'][^>]*>/gi, ''), from `pos`.
RelStylesheet == {<<"rel", "=", q1, "stylesheet", q2>> : q1, q2 \in {"\"", "'"}}
RECURSIVE RemoveStylesheetLinks(_, _)
RemoveStylesheetLinks(s, pos) ==
  LET i == IndexOf(s, <<"<", "link">>, pos)
      j == IF i = 0 THEN 0 ELSE IndexOf(s, <<">">>, i + 2)
  IN IF j = 0 THEN SubSeq(s, pos, Len(s))
     ELSE IF \E lit \in RelStylesheet :
               LET r == IndexOf(s, lit, i + 2) IN r # 0 /\ r + Len(lit) <= j
          THEN SubSeq(s, pos, i - 1) \o RemoveStylesheetLinks(s, j + 1)
          ELSE SubSeq(s, pos, i + 1) \o RemoveStylesheetLinks(s, i + 2)

\* s.replace(/<meta[^>]*>/gi, ''), from `pos`.
RECURSIVE RemoveMetaTags(_, _)
RemoveMetaTags(s, pos) ==
  LET i == IndexOf(s, <<"<", "me", "ta">>, pos)
      j == IF i = 0 THEN 0 ELSE IndexOf(s, <<">">>, i + 3)
  IN IF j = 0 THEN SubSeq(s, pos, Len(s))
     ELSE SubSeq(s, pos, i - 1) \o RemoveMetaTags(s, j + 1)

sanitizeHTML(html) ==
  RemoveMetaTags(
    RemoveBlocks(
      RemoveStylesheetLinks(
        RemoveBlocks(RemoveBlocks(html, "script", 1), "style", 1), 1),
      "svg", 1), 1)

\* A criterion of filterHTML: /<(names)\b ... /, optionally followed by
\* [^>]*attr=["']value["'] (attr), optionally by [^>]*> (tail), with or
\* without flag g (global).  The value AnyValue stands for [^"']+.
AnyValue == "[^\"']+"
NoAttr == [name |-> Null, value |-> Null]
InteractiveTags == {"input", "button", "select", "textarea", "a", "form", "div",
                    "span", "label", "h1", "h2", "h3", "h4", "h5", "h6"}
\* /<(input|button|select|textarea|a|form|div|span|label|h[1-6])\b[^>]*>/gi
DefaultCriterion ==
  [names |-> InteractiveTags, attr |-> NoAttr, tail |-> TRUE, global |-> TRUE]
\* /<input\b[^>]*data-testid=["'][^"']+["'][^>]*>/gi, and the same for button
TestIdCriterion(tag) ==
  [names |-> {tag}, attr |-> [name |-> "data-testid", value |-> AnyValue],
   tail |-> TRUE, global |-> TRUE]
\* /<form\b[^>]*>/gi
FormCriterion ==
  [names |-> {"form"}, attr |-> NoAttr, tail |-> TRUE, global |-> TRUE]
\* /<div\b[^>]*id=["']modal["'][^>]*>/gi
ModalCriterion ==
  [names |-> {"div"}, attr |-> [name |-> "id", value |-> "modal"],
   tail |-> TRUE, global |-> TRUE]
\* /<(input|button|div)\b/gi and /<(input|button|div)\b/i: criteria that
\* match an element tag by its name alone.
NameCriterion(g) ==
  [names |-> {"input", "button", "div"}, attr |-> NoAttr, tail |-> FALSE,
   global |-> g]

\* The criteria arrays filterHTML is called with.
CriteriaArrays ==
  { <<>>,
    <<DefaultCriterion>>,
    <<TestIdCriterion("input"), TestIdCriterion("button")>>,
    <<TestIdCriterion("input"), TestIdCriterion("button"), FormCriterion,
      ModalCriterion>>,
    <<NameCriterion(TRUE)>>,
    <<NameCriterion(FALSE)>> }

IsQuote(a) == a \in {"\"", "'"}

\* Where attr=["']value["'] placed at r ends in s, or 0.
AttrEnd(s, attr, r) ==
  IF r = 0 \/ r + 4 > Len(s) \/ s[r] # attr.name \/ s[r + 1] # "="
           \/ ~IsQuote(s[r + 2])
  THEN 0
  ELSE IF attr.value = AnyValue
       THEN MinOrZero({e \in (r + 4)..Len(s) :
                         IsQuote(s[e]) /\ \A m \in (r + 3)..(e - 1) : ~IsQuote(s[m])})
       ELSE IF s[r + 3] = attr.value /\ IsQuote(s[r + 4]) THEN r + 4 ELSE 0

\* <(names)\b matches at p: the name is s[p + 1].
NameMatches(c, s, p) ==
  /\ s[p] = "<"
  /\ p + 1 <= Len(s)
  /\ s[p + 1] \in c.names
  /\ ~(p + 2 <= Len(s) /\ IsWord(s[p + 2]))

\* [^>]* before the attribute reaches up to the first > after the name.
AttrLimit(s, gt) == IF gt = 0 THEN Len(s) ELSE gt - 1

\* Where the attribute part of c ends when the name ends at n, or 0.
AttrPartEnd(c, s, n) ==
  IF c.attr = NoAttr THEN n
  ELSE AttrEnd(s, c.attr,
               MaxOrZero({r \in (n + 1)..AttrLimit(s, IndexOf(s, <<">">>, n + 1)) :
                            AttrEnd(s, c.attr, r) # 0}))

\* Where the match ends when the part before [^>]*> ends at a, or 0.
TailEnd(c, s, a) ==
  IF a = 0 THEN 0
  ELSE IF c.tail THEN IndexOf(s, <<">">>, a + 1)
  ELSE a

\* Where the match of criterion c that starts at p ends in s, or 0 when
\* c does not match at p.
MatchEnd(c, s, p) ==
  IF NameMatches(c, s, p) THEN TailEnd(c, s, AttrPartEnd(c, s, p + 1)) ELSE 0

\* What test() returns and leaves in lastIndex when the match it found
\* ends at e (0: no match).
TestResult(c, li, e) ==
  [ok |-> e # 0, li |-> IF c.global THEN e ELSE li]

FirstMatchEnd(c, str, p) == IF p = 0 THEN 0 ELSE MatchEnd(c, str, p)

\* criterion.test(str) on a RegExp object whose lastIndex is li.  lastIndex
\* is counted in atoms.  With flag g the search starts at lastIndex.
Test(c, li, str) ==
  TestResult(c, li,
    FirstMatchEnd(c, str,
      MinOrZero({p \in (IF c.global THEN li + 1 ELSE 1)..Len(str) :
                   MatchEnd(c, str, p) # 0})))

\* criteria.some((criterion) => criterion.test(str)), from the k-th on: the
\* criteria are tested in order up to the first that matches.
RECURSIVE Some(_, _, _, _)
SomeAfter(criteria, lis, str, k, t) ==
  IF t.ok THEN [ok |-> TRUE, li |-> [lis EXCEPT ![k] = t.li]]
  ELSE Some(criteria, [lis EXCEPT ![k] = t.li], str, k + 1)
Some(criteria, lis, str, k) ==
  IF k > Len(criteria) THEN [ok |-> FALSE, li |-> lis]
  ELSE SomeAfter(criteria, lis, str, k, Test(criteria[k], lis[k], str))

\* The last atom of the run of word atoms that starts at `from` (from - 1
\* if there is none).
WordEnd(s, from) ==
  CHOOSE e \in (from - 1)..Len(s) :
    /\ \A j \in from..e : IsWord(s[j])
    /\ e = Len(s) \/ ~IsWord(s[e + 1])

\* The match of /<(\/?)(\w+)([^>]*)>/ that starts at i: where the name
\* starts (after the optional slash) and ends, and where the tag ends (0
\* when there is no match).
NameStart(s, i) == IF i + 1 <= Len(s) /\ s[i + 1] = "/" THEN i + 2 ELSE i + 1
NameEnd(s, i, n0) == IF s[i] = "<" /\ n0 <= Len(s) THEN WordEnd(s, n0) ELSE n0 - 1
TagFrom(s, i, n0, we) ==
  [start |-> i, nameEnd |-> we,
   end |-> IF we < n0 THEN 0 ELSE IndexOf(s, <<">">>, we + 1)]
TagAt(s, i) == TagFrom(s, i, NameStart(s, i), NameEnd(s, i, NameStart(s, i)))

\* The loop of filterHTML from position pos on: every tag regex.exec finds,
\* with the string handed to the criteria and whether the tag was kept,
\* and the lastIndex of every criterion afterwards.
SeenFirst(entry, rest) == [seen |-> <<entry>> \o rest.seen, li |-> rest.li]
RECURSIVE FilterLoop(_, _, _, _)
\* the tag m was tested with result r
FilterTested(s, criteria, m, r) ==
  SeenFirst([tag |-> SubSeq(s, m.start, m.end),
             tested |-> SubSeq(s, m.start, m.nameEnd),
             kept |-> r.ok],
            FilterLoop(s, criteria, r.li, m.end + 1))
\* regex.exec found the tag m
FilterTag(s, criteria, lis, m) ==
  FilterTested(s, criteria, m,
               Some(criteria, lis, SubSeq(s, m.start, m.nameEnd), 1))
\* regex.exec found a tag at i (0: none)
FilterFound(s, criteria, lis, i) ==
  IF i = 0 THEN [seen |-> <<>>, li |-> lis]
  ELSE FilterTag(s, criteria, lis, TagAt(s, i))
FilterLoop(s, criteria, lis, pos) ==
  FilterFound(s, criteria, lis,
              MinOrZero({i \in pos..Len(s) : TagAt(s, i).end # 0}))

\* filteredParts.join('\n')
RECURSIVE Join(_)
Join(parts) ==
  IF parts = <<>> THEN <<>>
  ELSE IF Len(parts) = 1 THEN parts[1]
  ELSE parts[1] \o <<"\n">> \o Join(Tail(parts))

IsKept(t) == t.kept
TagOf(seen) == [k \in 1..Len(seen) |-> seen[k].tag]

\* What filterHTML hands back once its loop has ended.
Filtered(criteria, lis, run) ==
  [out |-> Join(TagOf(SelectSeq(run.seen, IsKept))),
   seen |-> run.seen,
   li |-> IF criteria = <<>> THEN lis ELSE run.li]

\* filterHTML(html, criteria) with the RegExp objects of `criteria` in the
\* state lis: the string returned, what the loop saw, and the state the
\* RegExp objects are left in.  With no criteria the function makes its own
\* RegExp object, which starts at lastIndex 0.
filterHTML(html, criteria, lis) ==
  Filtered(criteria, lis,
           FilterLoop(html,
                      IF criteria = <<>> THEN <<DefaultCriterion>> ELSE criteria,
                      IF criteria = <<>> THEN <<0>> ELSE lis,
                      1))

\* The HTML strings handed to sanitizeHTML.
RECURSIVE ChunkSeqs(_)
ChunkSeqs(n) ==
  IF n = 0 THEN {<<>>}
  ELSE {<<>>} \cup {<<c>> \o t : c \in Chunks, t \in ChunkSeqs(n - 1)}
Inputs == {Flatten(cs) : cs \in ChunkSeqs(MaxChunks)}

TxtAbsent ==
  [pc |-> "absent", html |-> <<>>, sanitized |-> <<>>, again |-> <<>>,
   criteria |-> <<>>, lastIndex |-> <<>>, outputs |-> <<>>, seen |-> <<>>]

----------------------------------------------------------------------------
(* extractSanitizedHTML of playwrite_test_auto-1.md *)

ExampleUrl == "https://www.example.com"
ClickStep == "Click the \"Open Modal\" button."
FillStep == "Fill the \"Email\" input with \"a@b.c\""
OtherStep == "Wait for the modal to appear."
Steps == {ClickStep, FillStep, OtherStep}

\* performInteraction: which of clickRegex and fillRegex the step matches;
\* a step that matches neither is left without any call on the page.
InteractionOf(step) ==
  CASE step = ClickStep -> "click"
    [] step = FillStep -> "fill"
    [] OTHER -> "none"

InteractionLog(step) ==
  IF InteractionOf(step) = "click" THEN "Clicked button with text:"
  ELSE "Filled input with value:"

RECURSIVE StepSeqs(_)
StepSeqs(n) ==
  IF n = 0 THEN {<<>>}
  ELSE {<<>>} \cup {<<st>> \o t : st \in Steps, t \in StepSeqs(n - 1)}

\* What page.content() can return.
RawPages == {<<>>} \cup Chunks

ExtErrorLog == "Error during HTML extraction:"
ExtSuccessLog == "Sanitized HTML extracted successfully."
NoError == "none"

\* The calls extractSanitizedHTML awaits inside its try block.
ExtAwaited == {"launch", "newPage", "goto", "interaction", "waitForTimeout",
               "content"}

\* finally { if (page) await page.close(); if (browser) await browser.close(); }
ExtFinally(pg, br) ==
  IF pg # Null THEN "closePage"
  ELSE IF br # Null THEN "closeBrowser"
  ELSE "done"

\* The for loop from step k on: performInteraction is called for every step
\* in turn; the loop is suspended at the first step that awaits a call on
\* the page (0: there is none, the loop ends).
NextInteraction(steps, k) ==
  MinOrZero({j \in k..Len(steps) : InteractionOf(steps[j]) # "none"})

\* The steps the loop hands to performInteraction when it runs from k up to
\* the step it is suspended at, i (0: up to the end).
HandledUpTo(steps, k, i) ==
  [j \in 1..((IF i = 0 THEN Len(steps) ELSE i) - k + 1) |-> j + k - 1]

\* The function has left its last block: the promise settles.
ExtSettled(e) ==
  [e EXCEPT !.pc = "done",
            !.outcome = IF e.caught = NoError THEN "fulfilled" ELSE "rejected",
            !.thrown = e.caught]

\* The promise chain of the documented workflow: what it waits for ("runTest",
\* "exec", or "done"), the contents of src/test.ts the child process was
\* started on, and how the chain ended.
WfAbsent == [pc |-> "absent", ran |-> "none", result |-> "none"]

\* fs.appendFileSync('src/test-feedback.json', JSON.stringify(feedback) + '\n')
AppendedFeedback == "<the earlier feedback followed by the new entry>"
logTestFeedback(fs, status) ==
  [fs EXCEPT ![FeedbackFile] = IF @ = Absent THEN status ELSE AppendedFeedback]

ExtAbsent ==
  [pc |-> "absent", url |-> Null, steps |-> <<>>, criteria |-> <<>>,
   lastIndex |-> <<>>, browser |-> Null, page |-> Null, navigated |-> FALSE,
   at |-> 0, handled |-> <<>>, performed |-> <<>>, raw |-> <<>>,
   result |-> Null, caught |-> NoError, thrown |-> NoError,
   outcome |-> "absent", fileBefore |-> Absent]

----------------------------------------------------------------------------
(* The validating generator: generatePlaywrightCode as revised in the notes *)
(* of tester.ts, and generatePlaywrightTest of playwrite_test_auto-1.md     *)

GenFunctions == {"generatePlaywrightCode", "generatePlaywrightTest"}
\* The file each of them saves the generated code to.
GenPath(fn) == IF fn = "generatePlaywrightCode" THEN OutputFile ELSE GeneratedTestFile
GenSavedLog(fn) == IF fn = "generatePlaywrightCode" THEN "Playwright code saved to test.ts"
                   ELSE "Playwright test code generated and saved to generatedTest.ts"
GenErrorLog(fn) == IF fn = "generatePlaywrightCode" THEN "Error generating Playwright code:"
                   ELSE "Error generating Playwright test:"
GenAbsent == [fn |-> "none", pc |-> "absent", response |-> NoResponse,
              outcome |-> "absent", thrown |-> "none"]

\* The generated code as words, for String.prototype.includes.
Words(code) ==
  CASE code = ArrowCode ->
         <<"export", "const", "test", "=", "async", "()", "=>", "{", "await",
           "page.click('#go');", "};">>
    [] code = FunctionCode ->
         <<"export", "async", "function", "test", "()", "{", "await",
           "page.click('#go');", "}">>
    [] OTHER -> <<>>
Needle == <<"async", "function", "test">>
Includes(ws, needle) ==
  \E i \in 1..(Len(ws) - Len(needle) + 1) :
     SubSeq(ws, i, i + Len(needle) - 1) = needle

\* A generator that saves whatever text comes back.
ValidatesAnything(playwrightCode) == TRUE

\* playwrightCode.includes('async function test')
Validates(playwrightCode) == Includes(Words(playwrightCode), Needle)

\* What the try block of the generator can throw: the awaited call, the read
\* of content[0].text (or of includes on undefined), the validation, the write.
GenThrown(r, fsError) ==
  IF Len(r.content) = 0 \/ r.content[1].text = Undefined THEN "response"
  ELSE IF ~Validates(r.content[1].text) THEN "validation"
  ELSE IF fsError THEN "write"
  ELSE "none"

----------------------------------------------------------------------------
Init ==
  /\ script \in Scripts
  /\ url \in Urls
  /\ testName \in TestNames
  /\ pc = "launch"
  /\ browser = Null /\ page = Null
  /\ dom = <<>> /\ bodyHtml = <<>> /\ styled = FALSE
  /\ msg = NoResponse /\ parsedData = NoData /\ response = NoResponse
  /\ sent = <<>>
  /\ outcome = "pending"
  /\ tpc = IF script = Tester THEN "launch" ELSE "absent"
  /\ tbrowser = Null /\ tpage = Null
  /\ toutcome = IF script = Tester THEN "pending" ELSE "absent"
  /\ openBrowsers = {} /\ openPages = {}
  /\ files \in [Paths -> {Absent, StaleCode}]
  /\ \A p \in Paths \ {OutputFile} : files[p] = Absent
  /\ log = <<>>
  /\ calls = <<"launch">>
  /\ okSteps = {}
  /\ failedAt = "none"
  /\ before = files[OutputFile]
  /\ prevOutput = Null
  /\ gen = GenAbsent
  /\ txt = TxtAbsent
  /\ ext = ExtAbsent
  /\ wf = WfAbsent

----------------------------------------------------------------------------
(* runTest *)

LaunchResolves ==
  /\ pc = "launch"
  /\ browser' = RunTestBrowser
  /\ openBrowsers' = openBrowsers \cup {RunTestBrowser}
  /\ okSteps' = okSteps \cup {"launch"}
  /\ Continue(<<>>, <<>>, NextInPipeline("launch"))
  /\ UNCHANGED <<inputVars, restVars, testVars, page, dom, bodyHtml, styled, msg, parsedData,
                 response, sent, openPages, files, failedAt>>

NewPageResolves ==
  /\ pc = "newPage"
  /\ page' = RunTestPage
  /\ openPages' = openPages \cup {RunTestPage}
  /\ okSteps' = okSteps \cup {"newPage"}
  /\ Continue(<<>>, <<>>, NextInPipeline("newPage"))
  /\ UNCHANGED <<inputVars, restVars, testVars, browser, dom, bodyHtml, styled, msg, parsedData,
                 response, sent, openBrowsers, files, failedAt>>

GotoResolves ==
  /\ pc = "goto"
  /\ okSteps' = okSteps \cup {"goto"}
  /\ Continue(<<>>, <<>>, NextInPipeline("goto"))
  /\ UNCHANGED <<inputVars, restVars, testVars, browser, page, dom, bodyHtml, styled, msg,
                 parsedData, response, sent, openBrowsers, openPages, files,
                 failedAt>>

\* page.evaluate resolved with the serialized body; the first request is sent.
EvaluateResolves ==
  /\ pc = "evaluate"
  /\ \E d \in Doms :
       /\ dom' = EvaluateDom(d, Selector(script))
       /\ bodyHtml' = InnerHTML(dom')
       /\ styled' = HasStyle(d)
  /\ sent' = Append(sent, [call |-> "llm1", html |-> bodyHtml', scenario |-> testName,
                           data |-> Undefined])
  /\ okSteps' = okSteps \cup {"evaluate"}
  /\ Continue(<<>>, <<"bodyHtml">>, NextInPipeline("evaluate"))
  /\ UNCHANGED <<inputVars, restVars, testVars, browser, page, msg, parsedData, response,
                 openBrowsers, openPages, files, failedAt>>

\* launch, newPage, goto, evaluate or either messages.create rejected.
AwaitRejects ==
  /\ pc \in {"launch", "newPage", "goto", "evaluate", "llm1", "llm2"}
  /\ Throws(pc, <<>>, <<>>)
  /\ UNCHANGED <<inputVars, restVars, testVars, browser, page, dom, bodyHtml, styled, msg,
                 parsedData, response, sent, openBrowsers, openPages, files,
                 okSteps>>

\* The first messages.create resolved: extract content[0].text, parse it
\* (tester.ts only) and call generatePlaywrightCode, which sends the second
\* request.
Llm1Resolves ==
  /\ pc = "llm1"
  /\ \E m \in Responses(Llm1Texts) :
       /\ msg' = m
       /\ IF Len(m.content) = 0
            \/ (script = Tester /\ ~IsJson(m.content[1].text))
          THEN /\ okSteps' = okSteps \cup {"llm1"}
               /\ Throws("parse", <<"parse">>, <<>>)
               /\ UNCHANGED <<parsedData, sent>>
          ELSE /\ parsedData' = IF script = Tester THEN JsonParse(m.content[1].text)
                                ELSE RawText(m.content[1].text)
               /\ sent' = Append(sent, [call |-> "llm2", html |-> <<>>,
                                        scenario |-> testName,
                                        data |-> JsonStringify(parsedData')])
               /\ okSteps' = okSteps \cup {"llm1", "parse"}
               /\ Continue(<<"parse">>, <<>>, NextInPipeline("llm1"))
               /\ UNCHANGED failedAt
  /\ UNCHANGED <<inputVars, restVars, testVars, browser, page, dom, bodyHtml, styled, response,
                 openBrowsers, openPages, files>>

\* The second messages.create resolved inside generatePlaywrightCode:
\* extract content[0].text, log it, write the file, return to runTest, whose
\* try block ends.  fs.writeFileSync throws on data that is not a string and
\* may throw on a file-system error.
Llm2Resolves ==
  /\ pc = "llm2"
  /\ \E r \in Responses(Llm2Texts), fsError \in BOOLEAN :
       /\ response' = r
       /\ IF Len(r.content) = 0
          THEN /\ okSteps' = okSteps \cup {"llm2"}
               /\ Throws("extract", <<"extract">>, <<>>)
               /\ UNCHANGED files
          ELSE IF r.content[1].text = Undefined \/ fsError
          THEN /\ okSteps' = okSteps \cup {"llm2", "extract"}
               /\ Throws("write", <<"extract", "write">>, <<"playwrightCode">>)
               /\ UNCHANGED files
          ELSE /\ files' = SaveCode(files, testName, r.content[1].text)
               /\ okSteps' = okSteps \cup {"llm2", "extract", "write"}
               /\ Continue(<<"extract", "write">>,
                           <<"playwrightCode", "Playwright code saved to test.ts">>,
                           Finally(page, browser))
               /\ UNCHANGED failedAt
  /\ UNCHANGED <<inputVars, restVars, testVars, browser, page, dom, bodyHtml, styled, msg,
                 parsedData, sent, openBrowsers, openPages>>

\* finally: page.close() resolved.
ClosePageResolves ==
  /\ pc = "closePage"
  /\ openPages' = openPages \ {page}
  /\ okSteps' = okSteps \cup {"closePage"}
  /\ Continue(<<>>, <<>>, AfterClosePage(browser))
  /\ UNCHANGED <<inputVars, restVars, testVars, browser, page, dom, bodyHtml, styled, msg,
                 parsedData, response, sent, openBrowsers, files, failedAt>>

\* finally: browser.close() resolved; closing a browser closes its pages.
CloseBrowserResolves ==
  /\ pc = "closeBrowser"
  /\ openBrowsers' = openBrowsers \ {browser}
  /\ openPages' = openPages \ PagesOf(browser)
  /\ okSteps' = okSteps \cup {"closeBrowser"}
  /\ Continue(<<>>, <<>>, "done")
  /\ UNCHANGED <<inputVars, restVars, testVars, browser, page, dom, bodyHtml, styled, msg,
                 parsedData, response, sent, files, failedAt>>

\* finally: page.close() or browser.close() rejected.  The error leaves the
\* finally block, so the promise of runTest rejects and the rest of the
\* block is skipped.
CloseRejects ==
  /\ pc \in CleanupSteps
  /\ pc' = "done"
  /\ outcome' = "rejected"
  /\ UNCHANGED <<inputVars, restVars, testVars, browser, page, dom, bodyHtml, styled, msg,
                 parsedData, response, sent, openBrowsers, openPages, files,
                 log, calls, okSteps, failedAt>>

----------------------------------------------------------------------------
(* test(), the standalone function of tester.ts *)

TestOrder == <<"launch", "newPage", "goto", "fillEmail", "fillPass", "click", "content">>
TestSteps == {TestOrder[i] : i \in 1..Len(TestOrder)}
TestNext(step) ==
  CASE step = "launch" -> "newPage"
    [] step = "newPage" -> "goto"
    [] step = "goto" -> "fillEmail"
    [] step = "fillEmail" -> "fillPass"
    [] step = "fillPass" -> "click"
    [] step = "click" -> "content"
    [] OTHER -> "done"

runTestVars == <<pc, browser, page, dom, bodyHtml, styled, msg, parsedData,
                 response, sent, outcome, calls, okSteps, failedAt>>

\* The awaited call of test() resolved; after page.content() the html is
\* logged and the function returns.
TestStepResolves ==
  /\ tpc \in TestSteps
  /\ tpc' = TestNext(tpc)
  /\ tbrowser' = IF tpc = "launch" THEN TestBrowser ELSE tbrowser
  /\ openBrowsers' = IF tpc = "launch" THEN openBrowsers \cup {TestBrowser}
                     ELSE openBrowsers
  /\ tpage' = IF tpc = "newPage" THEN TestPage ELSE tpage
  /\ openPages' = IF tpc = "newPage" THEN openPages \cup {TestPage} ELSE openPages
  /\ log' = IF tpc = "content" THEN Append(log, "html") ELSE log
  /\ toutcome' = IF tpc = "content" THEN "fulfilled" ELSE toutcome
  /\ UNCHANGED <<inputVars, restVars, runTestVars, files>>

\* The awaited call of test() rejected: test() has no handler.
TestStepRejects ==
  /\ tpc \in TestSteps
  /\ tpc' = "done"
  /\ toutcome' = "rejected"
  /\ UNCHANGED <<inputVars, restVars, runTestVars, tbrowser, tpage, openBrowsers,
                 openPages, files, log>>

----------------------------------------------------------------------------
Next ==
  \/ LaunchResolves
  \/ NewPageResolves
  \/ GotoResolves
  \/ EvaluateResolves
  \/ AwaitRejects
  \/ Llm1Resolves
  \/ Llm2Resolves
  \/ ClosePageResolves
  \/ CloseBrowserResolves
  \/ CloseRejects
  \/ TestStepResolves
  \/ TestStepRejects

Spec == Init /\ [][Next]_vars

\* One resumption of runTest: the call it awaits returned or threw.
RunTestStep ==
  \/ LaunchResolves
  \/ NewPageResolves
  \/ GotoResolves
  \/ EvaluateResolves
  \/ AwaitRejects
  \/ Llm1Resolves
  \/ Llm2Resolves
  \/ ClosePageResolves
  \/ CloseBrowserResolves
  \/ CloseRejects

\* runTest under the assumption that every call it awaits eventually
\* returns or throws: the event loop resumes a function whose awaited
\* promise has settled.
SpecLive == Init /\ [][Next]_vars /\ WF_vars(RunTestStep)

----------------------------------------------------------------------------
(* runTest(...).then(() => executeTest()).catch(...) *)

\* The chain has been built on the promise of a runTest that has just been
\* called; like the runTest of the workflow, the one of test-generatior.ts
\* hands content[0].text to the generator unparsed and has the same catch
\* and finally blocks.
InitWorkflow ==
  /\ script = Generator
  /\ url \in Urls
  /\ testName \in TestNames
  /\ pc = "launch"
  /\ browser = Null /\ page = Null
  /\ dom = <<>> /\ bodyHtml = <<>> /\ styled = FALSE
  /\ msg = NoResponse /\ parsedData = NoData /\ response = NoResponse
  /\ sent = <<>>
  /\ outcome = "pending"
  /\ tpc = "absent" /\ tbrowser = Null /\ tpage = Null /\ toutcome = "absent"
  /\ openBrowsers = {} /\ openPages = {}
  /\ files \in [Paths -> {Absent, StaleCode}]
  /\ \A p \in Paths \ {OutputFile} : files[p] = Absent
  /\ log = <<>>
  /\ calls = <<"launch">>
  /\ okSteps = {}
  /\ failedAt = "none"
  /\ before = files[OutputFile]
  /\ prevOutput = Null
  /\ gen = GenAbsent
  /\ txt = TxtAbsent
  /\ ext = ExtAbsent
  /\ wf = [WfAbsent EXCEPT !.pc = "runTest"]

wfFrame == <<inputVars, testVars, runTestVars, openBrowsers, openPages,
             before, prevOutput, gen, txt, ext>>

\* The promise of runTest fulfilled: the then-callback calls executeTest,
\* which starts `npx playwright test src/test.ts` and returns.  If exec
\* throws, executeTest catches it, logs it and records a failure; if the
\* append of the record throws too, the chain's catch logs that.
ThenExecuteTest ==
  /\ wf.pc = "runTest"
  /\ pc = "done" /\ outcome = "fulfilled"
  /\ \E execThrows, fsError \in BOOLEAN :
       IF ~execThrows
       THEN /\ wf' = [wf EXCEPT !.pc = "exec", !.ran = files[OutputFile]]
            /\ UNCHANGED <<files, log>>
       ELSE /\ wf' = [wf EXCEPT !.pc = "done", !.result = "failed"]
            /\ files' = IF fsError THEN files ELSE logTestFeedback(files, "failed")
            /\ log' = log \o <<"Error executing test:">>
                          \o (IF fsError THEN <<"Error in test workflow:">> ELSE <<>>)
  /\ UNCHANGED wfFrame

\* The child process ended and the callback of exec runs: it logs the
\* outcome and appends it to the feedback file.  A run on a missing
\* src/test.ts ends with an error.
ExecCallback ==
  /\ wf.pc = "exec"
  /\ \E error, fsError \in BOOLEAN :
       /\ wf.ran = Absent => error
       /\ wf' = [wf EXCEPT !.pc = "done",
                           !.result = IF error THEN "failed" ELSE "passed"]
       /\ log' = Append(log, IF error THEN "Test execution failed:"
                                      ELSE "Test output:")
       /\ files' = IF fsError THEN files
                   ELSE logTestFeedback(files, IF error THEN "failed" ELSE "passed")
  /\ UNCHANGED wfFrame

\* The promise of runTest rejected: the then-callback is skipped and the
\* catch-callback logs the error.
WorkflowCatch ==
  /\ wf.pc = "runTest"
  /\ pc = "done" /\ outcome = "rejected"
  /\ wf' = [wf EXCEPT !.pc = "done", !.result = "caught"]
  /\ log' = Append(log, "Error in test workflow:")
  /\ UNCHANGED <<wfFrame, files>>

NextWorkflow ==
  \/ RunTestStep
  \/ ThenExecuteTest
  \/ ExecCallback
  \/ WorkflowCatch

SpecWorkflow == InitWorkflow /\ [][NextWorkflow]_vars

----------------------------------------------------------------------------
(* A further invocation *)

\* The script has ended and is executed again: a new process starts with
\* fresh locals and a fresh console, the browsers of the earlier process
\* are gone with it, and the file system is what the earlier invocation
\* left.
Reinvoke ==
  /\ pc = "done" /\ tpc \in {"done", "absent"}
  /\ pc' = "launch"
  /\ browser' = Null /\ page' = Null
  /\ dom' = <<>> /\ bodyHtml' = <<>> /\ styled' = FALSE
  /\ msg' = NoResponse /\ parsedData' = NoData /\ response' = NoResponse
  /\ sent' = <<>>
  /\ outcome' = "pending"
  /\ tpc' = IF script = Tester THEN "launch" ELSE "absent"
  /\ tbrowser' = Null /\ tpage' = Null
  /\ toutcome' = IF script = Tester THEN "pending" ELSE "absent"
  /\ openBrowsers' = {} /\ openPages' = {}
  /\ log' = <<>>
  /\ calls' = <<"launch">>
  /\ okSteps' = {}
  /\ failedAt' = "none"
  /\ before' = files[OutputFile]
  /\ prevOutput' = IF "write" \in okSteps THEN files[OutputFile] ELSE Null
  /\ UNCHANGED <<inputVars, files, gen, txt, ext, wf>>

NextAgain == Next \/ Reinvoke

----------------------------------------------------------------------------
(* The validating generator on its own *)

runIdle ==
  /\ pc = "absent" /\ tpc = "absent"
  /\ browser = Null /\ page = Null /\ tbrowser = Null /\ tpage = Null
  /\ dom = <<>> /\ bodyHtml = <<>> /\ styled = FALSE
  /\ msg = NoResponse /\ response = NoResponse
  /\ outcome = "absent" /\ toutcome = "absent"
  /\ openBrowsers = {} /\ openPages = {}
  /\ calls = <<>> /\ okSteps = {} /\ failedAt = "none"
  /\ prevOutput = Null
  /\ wf = WfAbsent

\* The generator has been called with the extracted data and the scenario
\* and awaits messages.create.
InitGen ==
  /\ runIdle
  /\ script \in Scripts /\ url \in Urls /\ testName \in TestNames
  /\ parsedData \in {JsonParse(TagsJson), RawText(ProseReply)}
  /\ gen \in [fn : GenFunctions, pc : {"llm"}, response : {NoResponse},
               outcome : {"pending"}, thrown : {"none"}]
  /\ sent = <<[call |-> gen.fn, html |-> <<>>, scenario |-> testName,
               data |-> JsonStringify(parsedData)]>>
  /\ files \in [Paths -> {Absent, StaleCode}]
  /\ \A p \in Paths \ {OutputFile, GeneratedTestFile} : files[p] = Absent
  /\ before = files[OutputFile]
  /\ log = <<>>
  /\ txt = TxtAbsent
  /\ ext = ExtAbsent

genFrame == <<inputVars, testVars, runTestVars, openBrowsers, openPages,
              before, prevOutput, txt, ext, wf>>

\* messages.create resolved: extract content[0].text, validate it, save it.
\* Whatever is thrown on the way is caught and logged inside the function.
GenLlmResolves ==
  /\ gen.pc = "llm"
  /\ \E r \in Responses(Llm2Texts), fsError \in BOOLEAN :
       /\ gen' = [gen EXCEPT !.pc = "done", !.response = r,
                              !.outcome = "fulfilled",
                              !.thrown = GenThrown(r, fsError)]
       /\ IF GenThrown(r, fsError) = "none"
          THEN /\ files' = [files EXCEPT ![GenPath(gen.fn)] = r.content[1].text]
               /\ log' = Append(log, GenSavedLog(gen.fn))
          ELSE /\ log' = Append(log, GenErrorLog(gen.fn))
               /\ UNCHANGED files
  /\ UNCHANGED genFrame

\* messages.create rejected: caught and logged inside the function.
GenLlmRejects ==
  /\ gen.pc = "llm"
  /\ gen' = [gen EXCEPT !.pc = "done", !.outcome = "fulfilled", !.thrown = "llm"]
  /\ log' = Append(log, GenErrorLog(gen.fn))
  /\ UNCHANGED <<genFrame, files>>

NextGen == GenLlmResolves \/ GenLlmRejects

SpecGen == InitGen /\ [][NextGen]_vars

SpecAgain == Init /\ [][NextAgain]_vars

----------------------------------------------------------------------------
(* sanitizeHTML and filterHTML on their own *)

\* A caller holds an HTML string and a criteria array whose RegExp objects
\* are newly made.
InitHtml ==
  /\ runIdle
  /\ script = Null /\ url = Null /\ testName = Null
  /\ parsedData = NoData /\ sent = <<>>
  /\ files = [p \in Paths |-> Absent]
  /\ before = Absent
  /\ log = <<>>
  /\ gen = GenAbsent
  /\ ext = ExtAbsent
  /\ \E h \in Inputs, cr \in CriteriaArrays :
       txt = [pc |-> "sanitize", html |-> h, sanitized |-> <<>>, again |-> <<>>,
              criteria |-> cr, lastIndex |-> [k \in 1..Len(cr) |-> 0],
              outputs |-> <<>>, seen |-> <<>>]

htmlFrame == <<inputVars, testVars, runTestVars, openBrowsers, openPages,
               files, log, before, prevOutput, gen, ext, wf>>

\* const sanitizedHTML = sanitizeHTML(rawHTML)
Sanitize ==
  /\ txt.pc = "sanitize"
  /\ txt' = [txt EXCEPT !.pc = "filter", !.sanitized = sanitizeHTML(txt.html)]
  /\ UNCHANGED htmlFrame

\* const filteredHTML = filterHTML(sanitizedHTML, filterCriteria)
Filter ==
  /\ txt.pc = "filter"
  /\ Len(txt.outputs) < MaxFilterCalls
  /\ LET f == filterHTML(txt.sanitized, txt.criteria, txt.lastIndex)
     IN txt' = [txt EXCEPT !.outputs = Append(@, f.out), !.seen = f.seen,
                           !.lastIndex = f.li]
  /\ UNCHANGED htmlFrame

\* sanitizeHTML(sanitizedHTML): the function applied to its own result.
SanitizeAgain ==
  /\ txt.pc = "filter" /\ txt.outputs = <<>>
  /\ txt' = [txt EXCEPT !.pc = "again", !.again = sanitizeHTML(txt.sanitized)]
  /\ UNCHANGED htmlFrame

NextHtml == Sanitize \/ Filter \/ SanitizeAgain

SpecHtml == InitHtml /\ [][NextHtml]_vars

----------------------------------------------------------------------------
(* extractSanitizedHTML on its own *)

\* extractSanitizedHTML has been called and awaits chromium.launch.
InitExtract ==
  /\ runIdle
  /\ script = Null /\ url = Null /\ testName = Null
  /\ parsedData = NoData /\ sent = <<>>
  /\ files \in [Paths -> {Absent, StaleCode}]
  /\ \A p \in Paths \ {SanitizedFile} : files[p] = Absent
  /\ before = Absent
  /\ log = <<>>
  /\ gen = GenAbsent
  /\ txt = TxtAbsent
  /\ \E st \in StepSeqs(MaxSteps), cr \in CriteriaArrays :
       ext = [ExtAbsent EXCEPT !.pc = "launch", !.url = ExampleUrl, !.steps = st,
                               !.criteria = cr,
                               !.lastIndex = [k \in 1..Len(cr) |-> 0],
                               !.outcome = "pending",
                               !.fileBefore = files[SanitizedFile]]

extFrame == <<inputVars, testVars, runTestVars, before, prevOutput, gen, txt,
              wf>>

\* browser = await chromium.launch({ headless: true })
ExtLaunchResolves ==
  /\ ext.pc = "launch"
  /\ ext' = [ext EXCEPT !.pc = "newPage", !.browser = ExtractBrowser]
  /\ openBrowsers' = openBrowsers \cup {ExtractBrowser}
  /\ UNCHANGED <<extFrame, openPages, files, log>>

\* page = await browser.newPage()
ExtNewPageResolves ==
  /\ ext.pc = "newPage"
  /\ ext' = [ext EXCEPT !.pc = "goto", !.page = ExtractPage]
  /\ openPages' = openPages \cup {ExtractPage}
  /\ UNCHANGED <<extFrame, openBrowsers, files, log>>

\* The loop over interactionSteps runs from step k on, up to the step i it
\* is suspended at (0: to its end, and page.waitForTimeout is awaited).
ExtLoop(e, k, i) ==
  [e EXCEPT !.pc = IF i = 0 THEN "waitForTimeout" ELSE "interaction",
            !.at = i,
            !.handled = @ \o HandledUpTo(e.steps, k, i)]

\* await page.goto(url, { waitUntil: 'networkidle' }) resolved; the loop
\* over the interaction steps starts.
ExtGotoResolves ==
  /\ ext.pc = "goto"
  /\ ext' = ExtLoop([ext EXCEPT !.navigated = TRUE], 1,
                    NextInteraction(ext.steps, 1))
  /\ UNCHANGED <<extFrame, openBrowsers, openPages, files, log>>

\* page.click or page.fill of performInteraction resolved; the loop goes on.
ExtInteractionResolves ==
  /\ ext.pc = "interaction"
  /\ ext' = ExtLoop([ext EXCEPT !.performed = Append(@, ext.at)], ext.at + 1,
                    NextInteraction(ext.steps, ext.at + 1))
  /\ log' = Append(log, InteractionLog(ext.steps[ext.at]))
  /\ UNCHANGED <<extFrame, openBrowsers, openPages, files>>

\* await page.waitForTimeout(1000)
ExtTimeoutResolves ==
  /\ ext.pc = "waitForTimeout"
  /\ ext' = [ext EXCEPT !.pc = "content"]
  /\ UNCHANGED <<extFrame, openBrowsers, openPages, files, log>>

\* The filtered string f.out is written to sanitized.html and returned, or
\* writeFileSync throws and the catch block logs the error and rethrows
\* it; either way the finally block is entered.
ExtSave(raw, f, fsError) ==
  IF fsError
  THEN /\ ext' = [ext EXCEPT !.pc = ExtFinally(ext.page, ext.browser),
                             !.raw = raw, !.lastIndex = f.li, !.caught = "write"]
       /\ log' = Append(log, ExtErrorLog)
       /\ UNCHANGED files
  ELSE /\ ext' = [ext EXCEPT !.pc = ExtFinally(ext.page, ext.browser),
                             !.raw = raw, !.lastIndex = f.li, !.result = f.out]
       /\ files' = [files EXCEPT ![SanitizedFile] = f.out]
       /\ log' = Append(log, ExtSuccessLog)

\* const rawHTML = await page.content() resolved: sanitize, filter, write.
ExtContentResolves ==
  /\ ext.pc = "content"
  /\ \E raw \in RawPages, fsError \in BOOLEAN :
       ExtSave(raw, filterHTML(sanitizeHTML(raw), ext.criteria, ext.lastIndex),
               fsError)
  /\ UNCHANGED <<extFrame, openBrowsers, openPages>>

\* The finally block is entered, or left when there is nothing to close.
ExtEnterFinally(e) ==
  IF ExtFinally(e.page, e.browser) = "done" THEN ExtSettled(e)
  ELSE [e EXCEPT !.pc = ExtFinally(e.page, e.browser)]

\* An awaited call of the try block rejected: the catch block logs the
\* error and rethrows it, and the finally block is entered.
ExtAwaitRejects ==
  /\ ext.pc \in ExtAwaited
  /\ ext' = ExtEnterFinally([ext EXCEPT !.caught = ext.pc])
  /\ log' = Append(log, ExtErrorLog)
  /\ UNCHANGED <<extFrame, openBrowsers, openPages, files>>

\* finally: page.close() resolved.
ExtClosePageResolves ==
  /\ ext.pc = "closePage"
  /\ openPages' = openPages \ {ext.page}
  /\ ext' = IF ext.browser # Null THEN [ext EXCEPT !.pc = "closeBrowser"]
            ELSE ExtSettled(ext)
  /\ UNCHANGED <<extFrame, openBrowsers, files, log>>

\* finally: browser.close() resolved; the function returns or rethrows.
ExtCloseBrowserResolves ==
  /\ ext.pc = "closeBrowser"
  /\ openBrowsers' = openBrowsers \ {ext.browser}
  /\ openPages' = openPages \ PagesOf(ext.browser)
  /\ ext' = ExtSettled(ext)
  /\ UNCHANGED <<extFrame, files, log>>

\* finally: page.close() or browser.close() rejected.  Its error leaves the
\* finally block in place of the result or of the rethrown error, and the
\* rest of the block is skipped.
ExtCloseRejects ==
  /\ ext.pc \in {"closePage", "closeBrowser"}
  /\ ext' = [ext EXCEPT !.pc = "done", !.outcome = "rejected", !.thrown = ext.pc]
  /\ UNCHANGED <<extFrame, openBrowsers, openPages, files, log>>

NextExtract ==
  \/ ExtLaunchResolves
  \/ ExtNewPageResolves
  \/ ExtGotoResolves
  \/ ExtInteractionResolves
  \/ ExtTimeoutResolves
  \/ ExtContentResolves
  \/ ExtAwaitRejects
  \/ ExtClosePageResolves
  \/ ExtCloseBrowserResolves
  \/ ExtCloseRejects

SpecExtract == InitExtract /\ [][NextExtract]_vars

----------------------------------------------------------------------------
(* Properties *)

\* The pipeline steps runTest has started, in order, cleanup left out.
Pipe(s) == SelectSeq(s, LAMBDA x : x \in PipelineSteps)
Count(s, x) == Cardinality({i \in 1..Len(s) : s[i] = x})
TokenTags(html) == {html[i].tag : i \in 1..Len(html)}
RunTestEnded == pc = "done"

\* C1: when a run of runTest has ended, whichever step failed (a cleanup
\* call included), the browser it launched and the page it opened are closed.
C1_AllClosedWhenRunEnds ==
  RunTestEnded => /\ RunTestBrowser \notin openBrowsers
                  /\ RunTestPage \notin openPages

\* C2: every failure of a run is caught by the handler of runTest and logged:
\* a failed step leaves "Test failed:" on the console, the promise of runTest
\* never rejects, and no promise of the script rejects unhandled.
C2_EveryFailureCaught ==
  /\ failedAt # "none" => Count(log, "Test failed:") = 1
  /\ outcome # "rejected"
  /\ toutcome # "rejected"

\* C3: the steps of a run start in the fixed order launch, new page,
\* navigate, strip and serialize, first LLM call, decoding, second LLM call,
\* extraction, file write, and a step starts only when the step before it
\* has completed successfully; the body is serialized after the selected
\* nodes were stripped, the first request carries that HTML and the
\* scenario, the second the extracted data and the scenario.
C3_FixedOrder ==
  LET p == Pipe(calls) IN
  /\ Len(p) <= Len(PipelineOrder)
  /\ \A i \in 1..Len(p) : p[i] = PipelineOrder[i]
  /\ \A i \in 2..Len(p) : p[i-1] \in okSteps
  /\ "evaluate" \in okSteps =>
       /\ bodyHtml = InnerHTML(dom)
       /\ TokenTags(bodyHtml) \cap Selector(script) = {}
       /\ Len(sent) >= 1
       /\ sent[1] = [call |-> "llm1", html |-> bodyHtml, scenario |-> testName,
                     data |-> Undefined]
  /\ Len(sent) <= 2
  /\ Len(sent) = 2 =>
       /\ "parse" \in okSteps
       /\ sent[2] = [call |-> "llm2", html |-> <<>>, scenario |-> testName,
                     data |-> JsonStringify(parsedData)]

\* C3 witness: a run that went through every step and wrote the file.
C3_Witness ==
  /\ RunTestEnded
  /\ Pipe(calls) = PipelineOrder
  /\ "write" \in okSteps
  /\ Len(sent) = 2

\* C4: at most one browser and at most one page are open at any time of a
\* script execution.
C4_SingleBrowserAndPage ==
  /\ Cardinality(openBrowsers) <= 1
  /\ Cardinality(openPages) <= 1

\* C5: once a step of a run has failed, that step is the last pipeline step
\* of the run: no later navigation, LLM call or file write is started, only
\* the failure is logged and cleanup follows.
C5_NoRecovery ==
  failedAt # "none" =>
    LET p == Pipe(calls) IN
    /\ p[Len(p)] = failedAt
    /\ failedAt \notin okSteps
    /\ pc \in CleanupSteps \cup {"done"}
    /\ Count(log, "Test failed:") = 1

\* C5 witness: a run whose navigation failed has ended after cleanup, with
\* no LLM call made and no file written.
C5_Witness ==
  /\ RunTestEnded
  /\ failedAt = "goto"
  /\ "closeBrowser" \in okSteps
  /\ sent = <<>>

\* C6: in one run every step is started at most once, whether it succeeds
\* or fails, and at most one request goes to each LLM call.
C6_NoRetry ==
  /\ \A s \in AwaitedSteps \cup PipelineSteps : Count(calls, s) <= 1
  /\ \A i, j \in 1..Len(sent) : sent[i].call = sent[j].call => i = j

\* C6 witness: a run whose second LLM call failed has ended; the call was
\* made once.
C6_Witness ==
  /\ RunTestEnded
  /\ failedAt = "llm2"
  /\ Count(calls, "llm2") = 1
  /\ Count(calls, "llm1") = 1

Malformed(m) ==
  \/ Len(m.content) = 0
  \/ m.content[1].text = Undefined
  \/ ~IsJson(m.content[1].text)

\* C7: a malformed response of the first LLM call (no content block, no
\* text, or text that is not JSON) fails the run: it is logged by the catch
\* block, the second LLM call is not made and no file is written.
C7_MalformedResponseFailsRun ==
  ("llm1" \in okSteps /\ Malformed(msg)) =>
    /\ failedAt = "parse"
    /\ Count(log, "Test failed:") = 1
    /\ Count(calls, "llm2") = 0
    /\ Count(calls, "write") = 0

\* C8: no step changes a file other than src/test.ts, whatever the URL, the
\* scenario and the LLM responses are.
C8_OnlyOutputFile ==
  [][\A p \in Paths \ {OutputFile} : files'[p] = files[p]]_vars

\* C8 witness: a run for the login scenario has written generated code to
\* src/test.ts.
C8_Witness ==
  /\ "write" \in okSteps
  /\ testName = TesterTestName
  /\ url = GeneratorUrl
  /\ files[OutputFile] = FunctionCode
  /\ files[ScenarioFile(testName)] = Absent

\* C9: the HTML sent to the first LLM call has no link, script, style or
\* meta element.
C9_NoStyleScriptMeta ==
  "evaluate" \in okSteps =>
    TokenTags(bodyHtml) \cap {"link", "script", "style", "meta"} = {}

\* C10: every browser launched during a script execution is closed by the
\* time the flow that launched it has ended, the browser launched by test()
\* included; no browser is left running with nobody left to close it.
C10_EveryBrowserClosed ==
  /\ pc = "done" => RunTestBrowser \notin openBrowsers
  /\ tpc = "done" => TestBrowser \notin openBrowsers

HasText(m) == Len(m.content) > 0 /\ m.content[1].text # Undefined

C19_WriteOnlyAfterBothCalls ==
  /\ Count(calls, "write") <= 1
  /\ "write" \in okSteps =>
       /\ {"llm1", "llm2"} \subseteq okSteps
       /\ HasText(msg) /\ HasText(response)
       /\ failedAt = "none"
  /\ "write" \notin okSteps => files[OutputFile] = before

\* C20: if a run fails at a step before the file write, src/test.ts holds
\* exactly what it held when the run started.
C20_FailedRunLeavesFile ==
  failedAt \in PipelineSteps \ {"write"} => files[OutputFile] = before

\* C20 witness: a run that found earlier code in src/test.ts and failed at
\* the generation call has ended.
C20_Witness ==
  /\ RunTestEnded
  /\ failedAt = "llm2"
  /\ before = StaleCode
  /\ files[OutputFile] = StaleCode

GenWrote == gen.pc = "done" /\ GenSavedLog(gen.fn) \in {log[i] : i \in 1..Len(log)}

\* C17: the validating generator writes its output file only if the text
\* of the response contains 'async function test'; otherwise the error is
\* logged inside the function, which returns normally, and no file changes.
C17_SavesOnlyValidatedCode ==
  /\ [][files' # files =>
          /\ HasText(gen'.response)
          /\ Includes(Words(gen'.response.content[1].text), Needle)
          /\ files' = [files EXCEPT ![GenPath(gen.fn)] = gen'.response.content[1].text]]_vars
  /\ [](gen.pc = "done" =>
          /\ gen.outcome = "fulfilled"
          /\ (HasText(gen.response)
               /\ ~Includes(Words(gen.response.content[1].text), Needle))
              => (log = <<GenErrorLog(gen.fn)>> /\ ~GenWrote))

\* C17 witness: the response was code without 'async function test'; the
\* error was logged and the earlier file is still there.
C17_Witness ==
  /\ gen.pc = "done"
  /\ HasText(gen.response) /\ gen.response.content[1].text = ArrowCode
  /\ log = <<GenErrorLog(gen.fn)>>
  /\ files[GenPath(gen.fn)] = StaleCode
----------------------------------------------------------------------------
(* sanitizeHTML and filterHTML *)

\* s holds an opening <tag ...> and, after it, a closing </tag>.
HasBlock(s, tag) ==
  \E i, j, k \in 1..Len(s) :
    /\ i + 1 < j /\ j < k /\ k + 3 <= Len(s)
    /\ SubSeq(s, i, i + 1) = <<"<", tag>>
    /\ s[j] = ">"
    /\ SubSeq(s, k, k + 3) = <<"<", "/", tag, ">">>

\* s holds a <link ...> tag with rel="stylesheet".
HasStylesheetLink(s) ==
  \E i, r, j \in 1..Len(s) :
    /\ i + 1 < r /\ r + 4 < j
    /\ SubSeq(s, i, i + 1) = <<"<", "link">>
    /\ SubSeq(s, r, r + 4) \in RelStylesheet
    /\ s[j] = ">"
    /\ \A m \in i..(j - 1) : s[m] # ">"

\* s holds a <meta ...> tag.
HasMetaTag(s) ==
  \E i, j \in 1..Len(s) :
    /\ i + 2 < j
    /\ SubSeq(s, i, i + 2) = <<"<", "me", "ta">>
    /\ s[j] = ">"

\* s holds a tag with a style attribute.
HasStyleAttribute(s) ==
  \E i, a, j \in 1..Len(s) :
    /\ i < a /\ a + 2 < j
    /\ s[i] = "<"
    /\ SubSeq(s, a, a + 2) = <<" ", "style", "=">>
    /\ s[j] = ">"
    /\ \A m \in i..(j - 1) : s[m] # ">"

\* C13: the string sanitizeHTML returns holds no script block, no style
\* block, no stylesheet link, no svg block and no meta tag.
C13_NoScriptStyleLinkSvgMeta ==
  txt.pc = "filter" =>
    /\ ~HasBlock(txt.sanitized, "script")
    /\ ~HasBlock(txt.sanitized, "style")
    /\ ~HasStylesheetLink(txt.sanitized)
    /\ ~HasBlock(txt.sanitized, "svg")
    /\ ~HasMetaTag(txt.sanitized)

\* C14: no tag of the string sanitizeHTML returns carries a style attribute.
C14_NoStyleAttribute ==
  txt.pc = "filter" => ~HasStyleAttribute(txt.sanitized)

\* The tags of what the loop saw that satisfy P, joined as filterHTML joins
\* its parts.
TagsWhere(seen, P(_)) == TagOf(SelectSeq(seen, P))

\* An opening tag of one of the common interactive elements.
IsInteractiveOpening(t) ==
  Len(t.tested) = 2 /\ t.tested[2] \in InteractiveTags

\* C15: called with no criteria, filterHTML returns the opening tags of the
\* input, button, select, textarea, a, form, div, span, label and h1-h6
\* elements of its input, in document order, and no other tag.
C15_DefaultKeepsInteractive ==
  (txt.criteria = <<>> /\ txt.outputs # <<>>) =>
    txt.outputs[1] = Join(TagsWhere(txt.seen, IsInteractiveOpening))

\* The criteria arrays whose criteria require an attribute.
AttributeCriteria ==
  {cr \in CriteriaArrays : \E k \in 1..Len(cr) : cr[k].attr # NoAttr}

\* The tag, as written in the input, matches one of the criteria of txt.
SatisfiesCriteria(t) ==
  \E k \in 1..Len(txt.criteria) : MatchEnd(txt.criteria[k], t.tag, 1) # 0

\* C16: called with criteria that require an attribute, filterHTML returns
\* the tags of its input that satisfy a criterion, and drops the others.
C16_AttributeCriteriaKeepMatching ==
  (txt.criteria \in AttributeCriteria /\ txt.outputs # <<>>) =>
    txt.outputs[1] = Join(TagsWhere(txt.seen, SatisfiesCriteria))

\* C12: the transforms are stateless: calls of filterHTML with the same
\* html and the same criteria array return the same string, and within one
\* call two tags that are tested alike are kept alike, whatever was tested
\* before them.
C12_StatelessTransforms ==
  /\ \A i, j \in 1..Len(txt.outputs) : txt.outputs[i] = txt.outputs[j]
  /\ \A i, j \in 1..Len(txt.seen) :
       txt.seen[i].tested = txt.seen[j].tested => txt.seen[i].kept = txt.seen[j].kept

----------------------------------------------------------------------------
(* extractSanitizedHTML *)

ExtLogged(entry) == \E i \in 1..Len(log) : log[i] = entry

\* C18: when extractSanitizedHTML has ended, the page and the browser it
\* opened are closed; if it returned, it had navigated, had handed every
\* interaction step to performInteraction in the given order, and returned
\* the page's HTML sanitized and then filtered; if an error occurred, the
\* error was logged and is the one the caller receives, and sanitized.html
\* was not written.
C18_ExtractThenAlwaysClose ==
  ext.pc = "done" =>
    /\ ExtractBrowser \notin openBrowsers
    /\ ExtractPage \notin openPages
    /\ ext.outcome = "fulfilled" =>
         /\ ext.navigated
         /\ ext.handled = [j \in 1..Len(ext.steps) |-> j]
         /\ ext.result = filterHTML(sanitizeHTML(ext.raw), ext.criteria,
                                    [k \in 1..Len(ext.criteria) |-> 0]).out
         /\ files[SanitizedFile] = ext.result
    /\ ext.outcome = "rejected" =>
         /\ ExtLogged(ExtErrorLog)
         /\ ext.thrown = ext.caught
         /\ files[SanitizedFile] = ext.fileBefore

----------------------------------------------------------------------------
(* The output file, cleanup and termination of runTest *)

\* C21: once a run has written src/test.ts, the file holds exactly the text
\* of the first content block of the generation response, whatever that
\* text is and whatever the file held before.
C21_FileIsGenerationText ==
  "write" \in okSteps =>
    /\ HasText(response)
    /\ files[OutputFile] = response.content[1].text

\* C21 witness: a run that found earlier code in src/test.ts has ended
\* without any failure, and the file holds the arrow-function text the
\* generation call returned and nothing of the earlier code.
C21_Witness ==
  /\ RunTestEnded /\ outcome = "fulfilled" /\ failedAt = "none"
  /\ before = StaleCode
  /\ HasText(response) /\ response.content[1].text = ArrowCode
  /\ files[OutputFile] = ArrowCode

\* "Test failed:" has been printed.
FailureLogged == \E i \in 1..Len(log) : log[i] = "Test failed:"

\* C22: cleanup comes last and in order: while a messages.create call is
\* awaited the page and the browser are open and no close has been called;
\* a close is called only once the file has been written or a failure has
\* been logged, and no pipeline step follows it; browser.close() is called
\* on a run that has a page only after page.close() has completed.
C22_CleanupLastAndOrdered ==
  /\ pc \in {"llm1", "llm2"} =>
       /\ RunTestBrowser \in openBrowsers /\ RunTestPage \in openPages
       /\ \A i \in 1..Len(calls) : calls[i] \notin CleanupSteps
  /\ \A i \in 1..Len(calls) :
       calls[i] \in CleanupSteps =>
         /\ "write" \in okSteps \/ (failedAt # "none" /\ FailureLogged)
         /\ \A j \in (i + 1)..Len(calls) : calls[j] \in CleanupSteps
  /\ \A i \in 1..Len(calls) :
       (calls[i] = "closeBrowser" /\ page # Null) =>
         /\ "closePage" \in okSteps
         /\ \E j \in 1..(i - 1) : calls[j] = "closePage"

\* C22 witness: a run has written the file and then closed the page and,
\* after it, the browser.
C22_Witness ==
  /\ RunTestEnded
  /\ "write" \in okSteps
  /\ {"closePage", "closeBrowser"} \subseteq okSteps
  /\ SubSeq(calls, Len(calls) - 2, Len(calls)) = <<"write", "closePage", "closeBrowser">>

C24_TerminatesAfterCleanup ==
  /\ <>(pc = "done")
  /\ [][(pc # "done" /\ pc' = "done") =>
          \/ pc \in CleanupSteps
          \/ pc = "launch" /\ browser' = Null /\ failedAt' = "launch"]_vars

\* C24 witness: a run that failed in the second LLM call has ended, after
\* both closes of its finally block.
C24_Witness ==
  /\ pc = "done"
  /\ failedAt = "llm2"
  /\ FailureLogged
  /\ SubSeq(calls, Len(calls) - 1, Len(calls)) = <<"closePage", "closeBrowser">>
  /\ {"closePage", "closeBrowser"} \subseteq okSteps

\* C25: the finally block closes only what was opened. close() is called
\* on the page only when newPage returned one, and on the browser only when
\* launch returned one; after a failed launch neither close is called, and
\* after a failed newPage the browser is closed and the page is not.
C25_ClosesOnlyWhatWasOpened ==
  /\ \A i \in 1..Len(calls) :
       /\ calls[i] = "closePage" => ("newPage" \in okSteps /\ page = RunTestPage)
       /\ calls[i] = "closeBrowser" =>
            ("launch" \in okSteps /\ browser = RunTestBrowser)
  /\ pc \in CleanupSteps \cup {"done"} =>
       /\ failedAt = "launch" =>
            /\ pc = "done"
            /\ \A i \in 1..Len(calls) : calls[i] \notin CleanupSteps
       /\ failedAt = "newPage" =>
            /\ \A i \in 1..Len(calls) : calls[i] # "closePage"
            /\ \E i \in 1..Len(calls) : calls[i] = "closeBrowser"

\* C25 witness: newPage threw, and the run ended after closing the browser
\* without a close of the page.
C25_Witness ==
  /\ pc = "done"
  /\ failedAt = "newPage"
  /\ page = Null
  /\ calls = <<"launch", "newPage", "closeBrowser">>
  /\ "closeBrowser" \in okSteps

----------------------------------------------------------------------------
(* The validating generator and the example of its prompt *)

\* C26: in the validating generator, a response whose text has the shape of
\* the prompt's example output, `export const test = async () => {...}`,
\* passes the validation and, unless the write itself throws, is saved to
\* the output file.
C26_ExampleShapeIsSaved ==
  (/\ gen.pc = "done"
   /\ HasText(gen.response)
   /\ gen.response.content[1].text = ArrowCode) =>
     /\ gen.thrown # "validation"
     /\ gen.thrown = "none" => files[GenPath(gen.fn)] = ArrowCode

----------------------------------------------------------------------------
(* The documented workflow *)

\* executeTest has been called by the then-callback of the chain.
ExecuteTestInvoked == wf.pc \in {"exec", "done"} /\ wf.result # "caught"

\* C27: in runTest(...).then(() => executeTest()), executeTest is invoked
\* only when this run of runTest generated and saved a new src/test.ts: no
\* step of the run failed, and the file the child process runs is the one
\* the run wrote.
C27_ExecutesOnlyFreshTest ==
  ExecuteTestInvoked =>
    /\ failedAt = "none"
    /\ "write" \in okSteps
    /\ wf.ran # "none" => (HasText(response) /\ wf.ran = response.content[1].text)

----------------------------------------------------------------------------
(* sanitizeHTML applied twice *)

\* C28: sanitizeHTML is idempotent: applied to its own result it returns
\* that result unchanged.
C28_SanitizeIdempotent ==
  txt.pc = "again" => txt.again = txt.sanitized

====
